---- MODULE Spec2Model ----
(***************************************************************************)
(* Threaded dense matrix product C = A x B (lab_3/matrix_threads.cpp).     *)
(* main parses its arguments, allocates and fills A, B, C, builds one task *)
(* list per thread with the chosen partition strategy, spawns T workers    *)
(* that write their cells of C, joins them, computes the single-threaded   *)
(* baseline and compares.                                                  *)
(*                                                                         *)
(* Vectors are sequences: C++ index x is sequence index x + 1.  Doubles    *)
(* are modelled by integers; every sum is accumulated in the order the     *)
(* code accumulates it.                                                    *)
(***************************************************************************)
EXTENDS Integers, Sequences, FiniteSets, Bags, TLC

\* Bounds of the full run (Spec).
MaxM == 2
MaxK == 2
MaxN == 2
MaxT == 3
\* Bounds of the partition functions applied on their own (SpecPart).
PartMaxM == 3
PartMaxN == 4
PartMaxT == 5

\* Bounds of the verifier applied on its own (SpecDiff).
DiffMaxLen == 2
DiffMaxVal == 2

\* mt19937_64 rng(42)
RngSeed == 42

VARIABLES
    argv,              \* argv[1..argc-1]: M K N T strategy flags...
    pc,                \* position of main
    M, K, N, T,        \* main's dimensions and thread count
    strat,             \* Strategy
    g_debug,           \* static bool g_debug
    use_random,
    A, B, C,           \* the matrices, flat, row-major
    tasks_per_thread,  \* vector<vector<Task>>
    threads,           \* vector<thread>: one record per spawned worker
    njoined,           \* number of threads main has joined
    g_print_mtx,       \* -1 when free, else the thread id holding it
    cout,              \* bag of diagnostic lines <<i, j, thread_id>>
    writers,           \* per cell of C, the thread ids that stored into it, in order
    C_ref,             \* baseline result
    diff               \* max |C - C_ref|

vars == <<argv, pc, M, K, N, T, strat, g_debug, use_random, A, B, C,
          tasks_per_thread, threads, njoined, g_print_mtx, cout, writers,
          C_ref, diff>>

----------------------------------------------------------------------------
\* C++ integer arithmetic on int: / truncates toward zero, % takes the sign
\* of the dividend.

Abs(x) == IF x < 0 THEN -x ELSE x

CDiv(a, b) ==
    IF (a < 0) = (b < 0) THEN Abs(a) \div Abs(b) ELSE -(Abs(a) \div Abs(b))

CMod(a, b) == a - b * CDiv(a, b)

Max2(a, b) == IF a < b THEN b ELSE a

\* Element x of a vector.
At(v, x) == v[x + 1]

Zeros(n) == [x \in 1..n |-> 0]

----------------------------------------------------------------------------
\* Accessors (lines 14-16).

getA(a, i, kk, kd) == At(a, i * kd + kk)
getB(b, kk, j, n) == At(b, kk * n + j)
CIndex(i, j, n) == i * n + j

\* An accumulator: the running sum, and the terms added to it so far, each
\* with its kk, in the order of the additions (floating-point addition is
\* not associative, so the order is part of the result).
Acc0 == [sum |-> 0, terms |-> <<>>]

\* sum += term
Accumulate(acc, kk, term) ==
    [sum |-> acc.sum + term, terms |-> Append(acc.terms, <<kk, term>>)]

\* The loop of compute_element: sum += A[i,kk] * B[kk,j] for kk = 0..K-1.
RECURSIVE dot_loop(_, _, _, _, _, _, _, _)
dot_loop(a, b, i, j, kd, n, kk, acc) ==
    IF kk < kd
    THEN dot_loop(a, b, i, j, kd, n, kk + 1,
                  Accumulate(acc, kk, getA(a, i, kk, kd) * getB(b, kk, j, n)))
    ELSE acc

\* The sum loop started at kk = 1.
compute_element_from1(a, b, i, j, kd, n) == dot_loop(a, b, i, j, kd, n, 1, Acc0).sum

\* The value compute_element returns (the diagnostic line is the worker's
\* lock/print/unlock steps below).
compute_element(a, b, i, j, kd, n) == dot_loop(a, b, i, j, kd, n, 0, Acc0).sum

----------------------------------------------------------------------------
\* Partition strategies.  A Task is <<i, j>>.

\* The whole remainder given to the first list.
chunk_count_first(base, extra, t) == base + (IF t = 0 THEN extra ELSE 0)

\* The comparison off by one: t <= extra.
chunk_count_le(base, extra, t) == base + (IF t <= extra THEN 1 ELSE 0)

\* int count = base + (t < extra ? 1 : 0);
chunk_count(base, extra, t) == base + (IF t < extra THEN 1 ELSE 0)

\* Rows with quotient and remainder exchanged.
rows_task_swapped(idx, m, n) == <<CMod(idx, n), CDiv(idx, n)>>

\* Rows: int i = idx / N; int j = idx % N;
rows_task(idx, m, n) == <<CDiv(idx, n), CMod(idx, n)>>

\* Cols with the row count taken for the column count.
cols_task_by_n(idx, m, n) == <<CMod(idx, n), CDiv(idx, n)>>

\* Cols with quotient and remainder exchanged.
cols_task_swapped(idx, m, n) == <<CDiv(idx, m), CMod(idx, m)>>

\* Cols: int j = idx / M; int i = idx % M;
cols_task(idx, m, n) == <<CMod(idx, m), CDiv(idx, m)>>

\* The inner loop of split_by_rows: idx = start .. start + count - 1.
rows_chunk(start, count, m, n) ==
    [p \in 1..count |-> rows_task(start + p - 1, m, n)]

cols_chunk(start, count, m, n) ==
    [p \in 1..count |-> cols_task(start + p - 1, m, n)]

\* The outer loop with start advanced by base instead of count.
RECURSIVE rows_loop_by_base(_, _, _, _, _, _, _, _)
rows_loop_by_base(t, start, res, base, extra, m, n, num_threads) ==
    IF t < num_threads
    THEN LET count == chunk_count(base, extra, t)
         IN  rows_loop_by_base(t + 1, start + base,
                               Append(res, rows_chunk(start, count, m, n)),
                               base, extra, m, n, num_threads)
    ELSE res

\* The outer loop of split_by_rows: t = 0 .. num_threads - 1, start += count.
RECURSIVE rows_loop(_, _, _, _, _, _, _, _)
rows_loop(t, start, res, base, extra, m, n, num_threads) ==
    IF t < num_threads
    THEN LET count == chunk_count(base, extra, t)
         IN  rows_loop(t + 1, start + count,
                       Append(res, rows_chunk(start, count, m, n)),
                       base, extra, m, n, num_threads)
    ELSE res

split_by_rows(m, n, num_threads) ==
    LET total == m * n
        base  == CDiv(total, num_threads)
        extra == CMod(total, num_threads)
    IN  rows_loop(0, 0, <<>>, base, extra, m, n, num_threads)

RECURSIVE cols_loop(_, _, _, _, _, _, _, _)
cols_loop(t, start, res, base, extra, m, n, num_threads) ==
    IF t < num_threads
    THEN LET count == chunk_count(base, extra, t)
         IN  cols_loop(t + 1, start + count,
                       Append(res, cols_chunk(start, count, m, n)),
                       base, extra, m, n, num_threads)
    ELSE res

split_by_cols(m, n, num_threads) ==
    LET total == m * n
        base  == CDiv(total, num_threads)
        extra == CMod(total, num_threads)
    IN  cols_loop(0, 0, <<>>, base, extra, m, n, num_threads)

\* EveryK with the thread taken from the next index.
every_k_thread_next(idx, num_threads) == CMod(idx + 1, num_threads)

\* EveryK: int t = idx % num_threads;
every_k_thread(idx, num_threads) == CMod(idx, num_threads)

\* The loop of split_every_k: res[t].push_back({idx / N, idx % N}).
RECURSIVE every_k_loop(_, _, _, _, _)
every_k_loop(idx, total, res, n, num_threads) ==
    IF idx < total
    THEN LET t == every_k_thread(idx, num_threads)
         IN  every_k_loop(idx + 1, total,
                          [res EXCEPT ![t + 1] = Append(@, <<CDiv(idx, n), CMod(idx, n)>>)],
                          n, num_threads)
    ELSE res

split_every_k(m, n, num_threads) ==
    every_k_loop(0, m * n, [t \in 1..num_threads |-> <<>>], n, num_threads)

make_tasks(m, n, nt, s) ==
    CASE s = "Rows"   -> split_by_rows(m, n, nt)
      [] s = "Cols"   -> split_by_cols(m, n, nt)
      [] s = "EveryK" -> split_every_k(m, n, nt)
      [] OTHER        -> <<>>

----------------------------------------------------------------------------
\* Baseline and verifier.

\* The innermost loop run downwards, kk = K-1 .. 0.
RECURSIVE baseline_sum_desc(_, _, _, _, _, _, _, _)
baseline_sum_desc(a, b, i, j, kd, n, kk, acc) ==
    IF kk < kd
    THEN baseline_sum_desc(a, b, i, j, kd, n, kk + 1,
             Accumulate(acc, kd - 1 - kk,
                        getA(a, i, kd - 1 - kk, kd) * getB(b, kd - 1 - kk, j, n)))
    ELSE acc

\* The innermost loop of multiply_baseline (lines 139-142):
\* s += A[i,kk] * B[kk,j] for kk = 0..K-1.
RECURSIVE baseline_sum_loop(_, _, _, _, _, _, _, _)
baseline_sum_loop(a, b, i, j, kd, n, kk, acc) ==
    IF kk < kd
    THEN baseline_sum_loop(a, b, i, j, kd, n, kk + 1,
                           Accumulate(acc, kk, getA(a, i, kk, kd) * getB(b, kk, j, n)))
    ELSE acc

\* The i, j loops of multiply_baseline, in row-major order: the matrix so
\* far, and the cells visited so far, in order.
RECURSIVE baseline_loop(_, _, _, _, _, _, _, _)
baseline_loop(a, b, m, kd, n, i, j, cacc) ==
    IF i >= m THEN cacc
    ELSE IF j >= n THEN baseline_loop(a, b, m, kd, n, i + 1, 0, cacc)
    ELSE baseline_loop(a, b, m, kd, n, i, j + 1,
             [C |-> [cacc.C EXCEPT ![CIndex(i, j, n) + 1] =
                        baseline_sum_loop(a, b, i, j, kd, n, 0, Acc0).sum],
              visits |-> Append(cacc.visits, <<i, j>>)])

multiply_baseline(a, b, m, kd, n) ==
    baseline_loop(a, b, m, kd, n, 0, 0, [C |-> Zeros(m * n), visits |-> <<>>]).C

\* The loop without abs.
RECURSIVE max_abs_loop_signed(_, _, _, _)
max_abs_loop_signed(x, y, i, mx) ==
    IF i < Len(x)
    THEN max_abs_loop_signed(x, y, i + 1, Max2(mx, At(x, i) - At(y, i)))
    ELSE mx

RECURSIVE max_abs_loop(_, _, _, _)
max_abs_loop(x, y, i, mx) ==
    IF i < Len(x)
    THEN max_abs_loop(x, y, i + 1, Max2(mx, Abs(At(x, i) - At(y, i))))
    ELSE mx

max_abs_diff(x, y) == max_abs_loop(x, y, 0, 0)

----------------------------------------------------------------------------
\* Input initialisation (lines 198-206).

\* iota(begin, end, 1.0)
iota_fill(n) == [x \in 1..n |-> x]

\* The generator, abstracted to a small linear congruential one; each draw
\* advances the state, and dist maps a state into [-1, 1].
rng_next(s) == (5 * s + 3) % 16

RECURSIVE rng_state(_)
rng_state(d) == IF d = 0 THEN RngSeed % 16 ELSE rng_next(rng_state(d - 1))

dist(s) == (s % 3) - 1

\* n draws after `drawn` earlier ones.
random_fill(n, drawn) == [x \in 1..n |-> dist(rng_state(drawn + x))]

----------------------------------------------------------------------------
\* Command line.

StrategyNames == {"rows", "cols", "everyk", "diag"}
FlagLists ==
    { <<>>, <<"--debug">>, <<"--random">>, <<"--debug", "--random">>,
      <<"--fast">>, <<"--debug", "--fast">> }

\* argv[1..]: complete command lines, and ones that stop short (argc < 6).
FullArgs ==
    { <<m, kd, n, t, s>> \o f :
        m \in -1..MaxM, kd \in -1..MaxK, n \in -1..MaxN, t \in -1..MaxT,
        s \in StrategyNames, f \in FlagLists }

ShortArgs == { <<>>, <<1>>, <<1, 1>>, <<1, 1, 1>>, <<1, 1, 1, 1>> }

\* The flag loop skipping what it does not know.
RECURSIVE parse_flags_lenient(_, _, _, _)
parse_flags_lenient(args, i, dbg, rnd) ==
    IF i > Len(args) THEN [ok |-> TRUE, debug |-> dbg, random |-> rnd]
    ELSE IF args[i] = "--debug" THEN parse_flags_lenient(args, i + 1, TRUE, rnd)
    ELSE IF args[i] = "--random" THEN parse_flags_lenient(args, i + 1, dbg, TRUE)
    ELSE parse_flags_lenient(args, i + 1, dbg, rnd)

\* The flag loop (lines 182-190): stops at the first unknown flag.
RECURSIVE parse_flags(_, _, _, _)
parse_flags(args, i, dbg, rnd) ==
    IF i > Len(args) THEN [ok |-> TRUE, debug |-> dbg, random |-> rnd]
    ELSE IF args[i] = "--debug" THEN parse_flags(args, i + 1, TRUE, rnd)
    ELSE IF args[i] = "--random" THEN parse_flags(args, i + 1, dbg, TRUE)
    ELSE [ok |-> FALSE, debug |-> dbg, random |-> rnd]

parse_strategy(s) ==
    IF s = "cols" THEN "Cols" ELSE IF s = "everyk" THEN "EveryK" ELSE "Rows"

----------------------------------------------------------------------------
\* main.

Init ==
    /\ argv \in FullArgs \cup ShortArgs
    /\ pc = "parse"
    /\ M = 0 /\ K = 0 /\ N = 0 /\ T = 0
    /\ strat = "Rows"
    /\ g_debug = FALSE
    /\ use_random = FALSE
    /\ A = <<>> /\ B = <<>> /\ C = <<>>
    /\ tasks_per_thread = <<>>
    /\ threads = <<>>
    /\ njoined = 0
    /\ g_print_mtx = -1
    /\ cout = EmptyBag
    /\ writers = <<>>
    /\ C_ref = <<>>
    /\ diff = 0

\* Lines 162-190.
ParseArgs ==
    /\ pc = "parse"
    /\ IF Len(argv) < 5
       THEN /\ pc' = "exit1"
            /\ UNCHANGED <<M, K, N, T, strat, g_debug, use_random>>
       ELSE /\ M' = argv[1]
            /\ K' = argv[2]
            /\ N' = argv[3]
            /\ T' = Max2(1, argv[4])
            /\ strat' = parse_strategy(argv[5])
            /\ IF argv[5] \notin {"rows", "cols", "everyk"}
               THEN /\ pc' = "exit1"
                    /\ UNCHANGED <<g_debug, use_random>>
               ELSE LET f == parse_flags(argv, 6, g_debug, FALSE)
                    IN  /\ g_debug' = f.debug
                        /\ use_random' = f.random
                        /\ pc' = IF f.ok THEN "alloc" ELSE "exit1"
    /\ UNCHANGED <<argv, A, B, C, tasks_per_thread, threads, njoined,
                   g_print_mtx, cout, writers, C_ref, diff>>

\* Lines 193-206.  A negative element count converts to a huge size_t and
\* the vector constructor throws; nothing catches it.
Alloc ==
    /\ pc = "alloc"
    /\ IF M * K < 0 \/ K * N < 0 \/ M * N < 0
       THEN /\ pc' = "aborted"
            /\ UNCHANGED <<A, B, C, writers>>
       ELSE /\ A' = IF use_random THEN random_fill(M * K, 0) ELSE iota_fill(M * K)
            /\ B' = IF use_random THEN random_fill(K * N, M * K) ELSE iota_fill(K * N)
            /\ C' = Zeros(M * N)
            /\ writers' = [x \in 1..(M * N) |-> <<>>]
            /\ pc' = "tasks"
    /\ UNCHANGED <<argv, M, K, N, T, strat, g_debug, use_random,
                   tasks_per_thread, threads, njoined, g_print_mtx, cout,
                   C_ref, diff>>

\* Line 209.
MakeTasks ==
    /\ pc = "tasks"
    /\ tasks_per_thread' = make_tasks(M, N, T, strat)
    /\ pc' = "spawn"
    /\ UNCHANGED <<argv, M, K, N, T, strat, g_debug, use_random, A, B, C,
                   threads, njoined, g_print_mtx, cout, writers, C_ref, diff>>

\* Lines 216-219: one emplace_back; the new worker starts at its loop head.
Spawn ==
    /\ pc = "spawn"
    /\ Len(threads) < T
    /\ threads' = Append(threads, [pc |-> "loop", pos |-> 0, sum |-> 0])
    /\ pc' = IF Len(threads) + 1 < T THEN "spawn" ELSE "join"
    /\ UNCHANGED <<argv, M, K, N, T, strat, g_debug, use_random, A, B, C,
                   tasks_per_thread, njoined, g_print_mtx, cout, writers,
                   C_ref, diff>>

\* The join loop without the wait (the threads detached).
JoinNoWait ==
    /\ pc = "join"
    /\ njoined < T
    /\ njoined' = njoined + 1
    /\ pc' = IF njoined + 1 < T THEN "join" ELSE "baseline"
    /\ UNCHANGED <<argv, M, K, N, T, strat, g_debug, use_random, A, B, C,
                   tasks_per_thread, threads, g_print_mtx, cout, writers,
                   C_ref, diff>>

\* Line 220: th.join() returns once that thread has finished.
Join ==
    /\ pc = "join"
    /\ njoined < T
    /\ threads[njoined + 1].pc = "done"
    /\ njoined' = njoined + 1
    /\ pc' = IF njoined + 1 < T THEN "join" ELSE "baseline"
    /\ UNCHANGED <<argv, M, K, N, T, strat, g_debug, use_random, A, B, C,
                   tasks_per_thread, threads, g_print_mtx, cout, writers,
                   C_ref, diff>>

\* Line 229.
Baseline ==
    /\ pc = "baseline"
    /\ C_ref' = multiply_baseline(A, B, M, K, N)
    /\ pc' = "verify"
    /\ UNCHANGED <<argv, M, K, N, T, strat, g_debug, use_random, A, B, C,
                   tasks_per_thread, threads, njoined, g_print_mtx, cout,
                   writers, diff>>

\* Lines 233-246.
Verify ==
    /\ pc = "verify"
    /\ diff' = max_abs_diff(C, C_ref)
    /\ pc' = "exit0"
    /\ UNCHANGED <<argv, M, K, N, T, strat, g_debug, use_random, A, B, C,
                   tasks_per_thread, threads, njoined, g_print_mtx, cout,
                   writers, C_ref>>

----------------------------------------------------------------------------
\* worker(thread_id, tasks_per_thread[thread_id], A, B, C, M, K, N).

Threads == 0..(Len(threads) - 1)

\* The worker handed its neighbour's list.
MyTasksNext(t) == At(tasks_per_thread, (t + 1) % Len(tasks_per_thread))

MyTasks(t) == At(tasks_per_thread, t)

CurTask(t) == At(MyTasks(t), At(threads, t).pos)

WorkerFrame ==
    UNCHANGED <<argv, pc, M, K, N, T, strat, g_debug, use_random, A, B,
                tasks_per_thread, njoined, C_ref, diff>>

\* Loop head with a task left: the sum loop of compute_element (lines 34-37).
WCompute(t) ==
    /\ At(threads, t).pc = "loop"
    /\ At(threads, t).pos < Len(MyTasks(t))
    /\ LET task == CurTask(t)
       IN  threads' = [threads EXCEPT ![t + 1] =
               [@ EXCEPT !.sum = compute_element(A, B, task[1], task[2], K, N),
                         !.pc = IF g_debug THEN "lock" ELSE "store"]]
    /\ UNCHANGED <<C, g_print_mtx, cout, writers>>
    /\ WorkerFrame

\* The lock taken without waiting for it to be free.
WLockNoWait(t) ==
    /\ At(threads, t).pc = "lock"
    /\ g_print_mtx' = t
    /\ threads' = [threads EXCEPT ![t + 1].pc = "print"]
    /\ UNCHANGED <<C, cout, writers>>
    /\ UNCHANGED <<argv, pc, M, K, N, T, strat, g_debug, use_random, A, B,
                   tasks_per_thread, njoined, C_ref, diff>>

\* lock_guard<mutex> lk(g_print_mtx) (line 40).
WLock(t) ==
    /\ At(threads, t).pc = "lock"
    /\ g_print_mtx = -1
    /\ g_print_mtx' = t
    /\ threads' = [threads EXCEPT ![t + 1].pc = "print"]
    /\ UNCHANGED <<C, cout, writers>>
    /\ WorkerFrame

\* cout << "compute C(i,j) on thread thread_id" (line 41).
WPrint(t) ==
    /\ At(threads, t).pc = "print"
    /\ LET task == CurTask(t)
       IN  cout' = cout (+) SetToBag({<<task[1], task[2], t>>})
    /\ threads' = [threads EXCEPT ![t + 1].pc = "unlock"]
    /\ UNCHANGED <<C, g_print_mtx, writers>>
    /\ WorkerFrame

\* The scope left without the lock being released.
WUnlockKeep(t) ==
    /\ At(threads, t).pc = "unlock"
    /\ g_print_mtx' = g_print_mtx
    /\ threads' = [threads EXCEPT ![t + 1].pc = "store"]
    /\ UNCHANGED <<C, cout, writers>>
    /\ UNCHANGED <<argv, pc, M, K, N, T, strat, g_debug, use_random, A, B,
                   tasks_per_thread, njoined, C_ref, diff>>

\* End of the lock_guard's scope (line 42).
WUnlock(t) ==
    /\ At(threads, t).pc = "unlock"
    /\ g_print_mtx' = -1
    /\ threads' = [threads EXCEPT ![t + 1].pc = "store"]
    /\ UNCHANGED <<C, cout, writers>>
    /\ WorkerFrame

\* The store after which the worker does not move on to its next task.
WStoreNoAdvance(t) ==
    /\ At(threads, t).pc = "store"
    /\ LET task == CurTask(t)
           x    == CIndex(task[1], task[2], N)
       IN  /\ C' = [C EXCEPT ![x + 1] = At(threads, t).sum]
           /\ writers' = [writers EXCEPT ![x + 1] = Append(@, t)]
    /\ threads' = [threads EXCEPT ![t + 1].pc = "loop"]
    /\ UNCHANGED <<g_print_mtx, cout>>
    /\ UNCHANGED <<argv, pc, M, K, N, T, strat, g_debug, use_random, A, B,
                   tasks_per_thread, njoined, C_ref, diff>>

\* The store that also marks the task as processed in the task list.
WStoreMarkDone(t) ==
    /\ At(threads, t).pc = "store"
    /\ LET task == CurTask(t)
           x    == CIndex(task[1], task[2], N)
       IN  /\ C' = [C EXCEPT ![x + 1] = At(threads, t).sum]
           /\ writers' = [writers EXCEPT ![x + 1] = Append(@, t)]
    /\ tasks_per_thread' =
          [tasks_per_thread EXCEPT ![t + 1][At(threads, t).pos + 1] = <<-1, -1>>]
    /\ threads' = [threads EXCEPT ![t + 1] =
            [@ EXCEPT !.pc = "loop", !.pos = @ + 1]]
    /\ UNCHANGED <<g_print_mtx, cout>>
    /\ UNCHANGED <<argv, pc, M, K, N, T, strat, g_debug, use_random, A, B,
                   njoined, C_ref, diff>>

\* getC(C, i, j, N) = <returned sum> (line 54), then the next task.
WStore(t) ==
    /\ At(threads, t).pc = "store"
    /\ LET task == CurTask(t)
           x    == CIndex(task[1], task[2], N)
       IN  /\ C' = [C EXCEPT ![x + 1] = At(threads, t).sum]
           /\ writers' = [writers EXCEPT ![x + 1] = Append(@, t)]
    /\ threads' = [threads EXCEPT ![t + 1] =
            [@ EXCEPT !.pc = "loop", !.pos = @ + 1]]
    /\ UNCHANGED <<g_print_mtx, cout>>
    /\ WorkerFrame

\* A worker that returns only after having had a task.
WExitNonEmpty(t) ==
    /\ At(threads, t).pc = "loop"
    /\ At(threads, t).pos >= Len(MyTasks(t))
    /\ Len(MyTasks(t)) > 0
    /\ threads' = [threads EXCEPT ![t + 1].pc = "done"]
    /\ UNCHANGED <<C, g_print_mtx, cout, writers>>
    /\ UNCHANGED <<argv, pc, M, K, N, T, strat, g_debug, use_random, A, B,
                   tasks_per_thread, njoined, C_ref, diff>>

\* Loop head with no task left: the worker returns.
WExit(t) ==
    /\ At(threads, t).pc = "loop"
    /\ At(threads, t).pos >= Len(MyTasks(t))
    /\ threads' = [threads EXCEPT ![t + 1].pc = "done"]
    /\ UNCHANGED <<C, g_print_mtx, cout, writers>>
    /\ WorkerFrame

Next ==
    \/ ParseArgs
    \/ Alloc
    \/ MakeTasks
    \/ Spawn
    \/ Join
    \/ Baseline
    \/ Verify
    \/ \E t \in Threads : WCompute(t)
    \/ \E t \in Threads : WLock(t)
    \/ \E t \in Threads : WPrint(t)
    \/ \E t \in Threads : WUnlock(t)
    \/ \E t \in Threads : WStore(t)
    \/ \E t \in Threads : WExit(t)

Spec == Init /\ [][Next]_vars

\* Scheduling: main and every spawned worker keep getting the processor.
MainStep == ParseArgs \/ Alloc \/ MakeTasks \/ Spawn \/ Join \/ Baseline \/ Verify

WorkerRun(t) ==
    /\ t \in Threads
    /\ (WCompute(t) \/ WLock(t) \/ WPrint(t) \/ WUnlock(t) \/ WStore(t) \/ WExit(t))

FairSpec ==
    /\ Spec
    /\ WF_vars(MainStep)
    /\ \A t \in 0..(MaxT - 1) : WF_vars(WorkerRun(t))

\* The partition functions on their own: main just before line 209, for
\* every valid (M, N, T, strategy) within the Part bounds (K = 1, default
\* fill), and the one step that builds the task lists.
InitPart ==
    \E m \in 1..PartMaxM, n \in 1..PartMaxN, t \in 1..PartMaxT,
       s \in {"rows", "cols", "everyk"} :
        /\ argv = <<m, 1, n, t, s>>
        /\ pc = "tasks"
        /\ M = m /\ K = 1 /\ N = n /\ T = t
        /\ strat = parse_strategy(s)
        /\ g_debug = FALSE
        /\ use_random = FALSE
        /\ A = iota_fill(m) /\ B = iota_fill(n) /\ C = Zeros(m * n)
        /\ tasks_per_thread = <<>>
        /\ threads = <<>>
        /\ njoined = 0
        /\ g_print_mtx = -1
        /\ cout = EmptyBag
        /\ writers = [x \in 1..(m * n) |-> <<>>]
        /\ C_ref = <<>>
        /\ diff = 0

SpecPart == InitPart /\ [][MakeTasks]_vars

----------------------------------------------------------------------------
\* Vocabulary of the properties.

\* make_tasks has returned.
TasksBuilt == pc \in {"spawn", "join", "baseline", "verify", "exit0"}

\* The parallel phase is over: every join has returned.
Joined == pc \in {"baseline", "verify", "exit0"}

ValidDims == M >= 1 /\ N >= 1

Grid == (0..(M - 1)) \X (0..(N - 1))

\* Positions <<t, p>> of the task lists holding the cell.
Places(cell) ==
    UNION { { <<t, p>> : p \in { q \in 1..Len(tasks_per_thread[t]) :
                                   tasks_per_thread[t][q] = cell } } :
            t \in 1..Len(tasks_per_thread) }

\* All tasks of all lists.
AllTasks ==
    UNION { { tasks_per_thread[t][p] : p \in 1..Len(tasks_per_thread[t]) } :
            t \in 1..Len(tasks_per_thread) }

\* Sum of the sizes of lists 0 .. t-1.
RECURSIVE StartOf(_)
StartOf(t) == IF t = 0 THEN 0 ELSE StartOf(t - 1) + Len(At(tasks_per_thread, t - 1))

\* Lists 0 .. t-1 one after the other.
RECURSIVE ConcatUpTo(_)
ConcatUpTo(t) == IF t = 0 THEN <<>> ELSE ConcatUpTo(t - 1) \o At(tasks_per_thread, t - 1)

----------------------------------------------------------------------------
\* C1: the T task lists of every strategy together hold every cell of the
\* M x N grid exactly once (no cell missing, none twice within or across
\* lists) and hold no pair outside the grid.
C1_PartitionComplete ==
    (TasksBuilt /\ ValidDims) =>
        /\ Len(tasks_per_thread) = T
        /\ \A cell \in Grid : Cardinality(Places(cell)) = 1
        /\ AllTasks \subseteq Grid

\* A 2 x 3 grid split by columns over 4 threads.
C1_Witness ==
    /\ TasksBuilt
    /\ M = 2 /\ N = 3 /\ T = 4 /\ strat = "Cols"
    /\ Len(tasks_per_thread) = 4

----------------------------------------------------------------------------
\* C5: make_tasks returns exactly T lists; with total = M*N, base = total
\* div T and extra = total mod T, list t holds base + 1 tasks when t < extra
\* and base tasks otherwise, so two lists differ in size by at most 1.
C5_LoadBalance ==
    (TasksBuilt /\ ValidDims) =>
        LET total == M * N
            base  == total \div T
            extra == total % T
        IN  /\ Len(tasks_per_thread) = T
            /\ \A t \in 0..(T - 1) :
                 Len(At(tasks_per_thread, t)) = IF t < extra THEN base + 1 ELSE base
            /\ \A t, u \in 0..(T - 1) :
                 Len(At(tasks_per_thread, t)) - Len(At(tasks_per_thread, u)) <= 1

\* Round-robin lists of unequal size: 3 x 3 cells over 4 threads.
C5_Witness ==
    /\ TasksBuilt
    /\ strat = "EveryK" /\ M = 3 /\ N = 3 /\ T = 4
    /\ Len(At(tasks_per_thread, 0)) = 3
    /\ Len(At(tasks_per_thread, 3)) = 2

----------------------------------------------------------------------------
\* Chunk boundaries of the Rows strategy.

\* Every list starts at a row-major index that is a multiple of N.
RowsAligned == \A t \in 0..(T - 1) : StartOf(t) % N = 0

\* No row of C has cells in the lists of two different threads.
NoRowSplit ==
    \A t, u \in 1..Len(tasks_per_thread) :
        t # u =>
            \A p \in 1..Len(tasks_per_thread[t]), q \in 1..Len(tasks_per_thread[u]) :
                tasks_per_thread[t][p][1] # tasks_per_thread[u][q][1]

\* C8 as stated: under Rows every chunk boundary is a multiple of N and
\* no row of C is split between two threads, for every M, N, T >= 1.
C8_AsStated ==
    (TasksBuilt /\ ValidDims /\ strat = "Rows") => (RowsAligned /\ NoRowSplit)

\* C8 amended: under Rows every list is a contiguous run of row-major
\* indices; the chunk boundaries are all multiples of N, and no row of C is
\* split between two threads, exactly when T divides M or N = 1; otherwise
\* a boundary falls inside a row, which two threads share.
C8_RowsAlignedIffDivides ==
    (TasksBuilt /\ ValidDims /\ strat = "Rows") =>
        /\ \A t \in 1..Len(tasks_per_thread) :
             \A p \in 1..(Len(tasks_per_thread[t]) - 1) :
                CIndex(tasks_per_thread[t][p + 1][1], tasks_per_thread[t][p + 1][2], N)
                  = CIndex(tasks_per_thread[t][p][1], tasks_per_thread[t][p][2], N) + 1
        /\ RowsAligned <=> (M % T = 0 \/ N = 1)
        /\ NoRowSplit <=> (M % T = 0 \/ N = 1)

\* Whole rows: 2 rows of 3 cells over 2 threads, the second list starting at 3.
C8_Witness ==
    /\ TasksBuilt /\ strat = "Rows"
    /\ M = 2 /\ N = 3 /\ T = 2
    /\ StartOf(1) = 3
    /\ RowsAligned /\ NoRowSplit

----------------------------------------------------------------------------
\* C9: under Rows, list t is the cells (idx div N, idx mod N) for idx
\* increasing over [start_t, start_t + count_t), start_t being the sum of
\* the sizes of lists 0..t-1; the lists one after the other are the
\* row-major enumeration of the grid.
C9_RowsRowMajor ==
    (TasksBuilt /\ ValidDims /\ strat = "Rows") =>
        /\ \A t \in 0..(T - 1) :
             \A p \in 1..Len(At(tasks_per_thread, t)) :
                LET idx == StartOf(t) + p - 1
                IN  At(tasks_per_thread, t)[p] = <<idx \div N, idx % N>>
        /\ ConcatUpTo(T) = [x \in 1..(M * N) |-> <<(x - 1) \div N, (x - 1) % N>>]

\* A list that starts inside a row and runs into the next one.
C9_Witness ==
    /\ TasksBuilt /\ strat = "Rows"
    /\ M = 3 /\ N = 4 /\ T = 5
    /\ At(tasks_per_thread, 1) = <<<<0, 3>>, <<1, 0>>, <<1, 1>>>>

----------------------------------------------------------------------------
\* C10: under Cols, list t is the cells (i = idx mod M, j = idx div M) for
\* idx increasing over [start_t, start_t + count_t); the lists one after
\* the other are the column-major enumeration of the grid, and every cell
\* lies in the grid, also when M # N.
C10_ColsColMajor ==
    (TasksBuilt /\ ValidDims /\ strat = "Cols") =>
        /\ \A t \in 0..(T - 1) :
             \A p \in 1..Len(At(tasks_per_thread, t)) :
                LET idx == StartOf(t) + p - 1
                IN  At(tasks_per_thread, t)[p] = <<idx % M, idx \div M>>
        /\ ConcatUpTo(T) = [x \in 1..(M * N) |-> <<(x - 1) % M, (x - 1) \div M>>]
        /\ AllTasks \subseteq Grid

\* A non-square grid: 2 rows, 3 columns, 2 threads.
C10_Witness ==
    /\ TasksBuilt /\ strat = "Cols"
    /\ M = 2 /\ N = 3 /\ T = 2
    /\ At(tasks_per_thread, 1) = <<<<1, 1>>, <<0, 2>>, <<1, 2>>>>

----------------------------------------------------------------------------
\* Vocabulary of the run's properties.

\* sum over kk = 0 .. kd-1 of A[i,kk] * B[kk,j], by recursion on kd.
RECURSIVE CellProduct(_, _, _)
CellProduct(i, j, kd) ==
    IF kd <= 0 THEN 0
    ELSE CellProduct(i, j, kd - 1) + A[i * K + (kd - 1) + 1] * B[(kd - 1) * N + j + 1]

\* The thread has been handed its sum and has not stored it yet.
Holding(t) == At(threads, t).pc \in {"lock", "print", "unlock", "store"}

\* Cells of C (as indices of the sequence) thread t has stored into.
WrittenBy(t) ==
    { x \in 1..Len(writers) : \E w \in 1..Len(writers[x]) : writers[x][w] = t }

\* The task list of thread t holds the cell stored at C[x - 1].
Owns(t, x) ==
    \E p \in 1..Len(MyTasks(t)) :
        CIndex(MyTasks(t)[p][1], MyTasks(t)[p][2], N) + 1 = x

Terminated == pc \in {"exit0", "exit1", "aborted"}

----------------------------------------------------------------------------
\* C2: for well-formed A, B, every strategy and T, under every interleaving,
\* C after the joins equals the baseline's matrix cell for cell and the
\* reported difference is 0; for M=K=N=2 and A=B=[1,2,3,4], C=[7,10,15,22].
C2_ParallelEqualsBaseline ==
    (ValidDims /\ K >= 0) =>
        /\ Joined =>
             /\ C = multiply_baseline(A, B, M, K, N)
             /\ \A cell \in Grid :
                  At(C, cell[1] * N + cell[2]) = CellProduct(cell[1], cell[2], K)
        /\ pc \in {"verify", "exit0"} => C = C_ref
        /\ pc = "exit0" => diff = 0
        /\ (Joined /\ M = 2 /\ K = 2 /\ N = 2 /\ ~use_random) => C = <<7, 10, 15, 22>>

\* The example run has finished: 2 x 2 x 2, two threads, Rows.
C2_Witness ==
    /\ pc = "exit0"
    /\ argv = <<2, 2, 2, 2, "rows">>
    /\ C = <<7, 10, 15, 22>>
    /\ diff = 0

----------------------------------------------------------------------------
\* C3: in every interleaving no two distinct workers write the same cell
\* of C, and over the whole phase every cell is written exactly once, by
\* the worker whose task list holds it.
C3_DisjointWrites ==
    ValidDims =>
        /\ \A x \in 1..Len(writers) :
             /\ Len(writers[x]) <= 1
             /\ \A w \in 1..Len(writers[x]) : Owns(writers[x][w], x)
        /\ \A t, u \in Threads :
             (t # u /\ Holding(t) /\ Holding(u)) => CurTask(t) # CurTask(u)
        /\ Joined => \A x \in 1..(M * N) : Len(writers[x]) = 1

\* All four cells of a 2 x 2 result written, by three different workers.
C3_Witness ==
    /\ Joined
    /\ M = 2 /\ N = 2 /\ T = 3
    /\ \A x \in 1..4 : Len(writers[x]) = 1
    /\ Cardinality({ writers[x][1] : x \in 1..4 }) = 3

----------------------------------------------------------------------------
\* C4: the parallel phase returns only when all T workers have finished:
\* baseline and verifier never start while a worker has a task left, and
\* when the last join returns every cell of C has been written.
C4_JoinBarrier ==
    /\ Joined =>
         /\ Len(threads) = T
         /\ njoined = T
         /\ \A t \in Threads :
              /\ At(threads, t).pc = "done"
              /\ At(threads, t).pos = Len(MyTasks(t))
         /\ ValidDims => \A x \in 1..(M * N) : Len(writers[x]) = 1
    /\ pc \in {"spawn", "join"} => (C_ref = <<>> /\ diff = 0)

\* The last join has just returned, three workers, four cells.
C4_Witness ==
    /\ pc = "baseline"
    /\ T = 3 /\ M = 2 /\ N = 2
    /\ njoined = 3

----------------------------------------------------------------------------
\* C6: when T > M*N, workers with index >= M*N get an empty list, never
\* write C and return; workers with index < M*N process exactly one cell;
\* the run is never stuck and completes with C equal to the baseline.
C6_SurplusWorkers ==
    (ValidDims /\ T > M * N) =>
        /\ TasksBuilt =>
             \A t \in 0..(T - 1) :
                Len(At(tasks_per_thread, t)) = IF t < M * N THEN 1 ELSE 0
        /\ \A t \in Threads :
             t >= M * N =>
                /\ At(threads, t).pc \in {"loop", "done"}
                /\ At(threads, t).pos = 0
                /\ WrittenBy(t) = {}
        /\ \A t \in Threads :
             (t < M * N /\ At(threads, t).pc = "done") =>
                /\ At(threads, t).pos = 1
                /\ Cardinality(WrittenBy(t)) = 1
        /\ pc = "exit0" =>
             /\ \A t \in 0..(T - 1) : At(threads, t).pc = "done"
             /\ C = C_ref
             /\ diff = 0
        /\ ~Terminated => ENABLED Next

\* Three workers for two cells: the run has completed, the third worker
\* wrote nothing.
C6_Witness ==
    /\ pc = "exit0"
    /\ M = 1 /\ N = 2 /\ T = 3
    /\ At(threads, 2).pc = "done"
    /\ WrittenBy(2) = {}
    /\ C = C_ref

----------------------------------------------------------------------------
\* C11: under EveryK the cell with row-major index idx = i*N + j is in list
\* idx mod T and in no other; within a list the cells come in increasing
\* idx order, consecutive tasks exactly T apart.
C11_EveryKRoundRobin ==
    (TasksBuilt /\ ValidDims /\ strat = "EveryK") =>
        /\ Len(tasks_per_thread) = T
        /\ \A cell \in Grid :
             LET idx == cell[1] * N + cell[2]
             IN  /\ Cardinality(Places(cell)) = 1
                 /\ \A tp \in Places(cell) :
                      /\ tp[1] - 1 = idx % T
                      /\ tp[2] - 1 = idx \div T
        /\ \A t \in 1..T :
             \A p \in 1..(Len(tasks_per_thread[t]) - 1) :
                tasks_per_thread[t][p + 1][1] * N + tasks_per_thread[t][p + 1][2]
                  = tasks_per_thread[t][p][1] * N + tasks_per_thread[t][p][2] + T
        /\ AllTasks \subseteq Grid

\* 3 x 4 cells dealt to 5 threads: list 1 holds indices 1, 6, 11.
C11_Witness ==
    /\ TasksBuilt /\ strat = "EveryK"
    /\ M = 3 /\ N = 4 /\ T = 5
    /\ At(tasks_per_thread, 1) = <<<<0, 1>>, <<1, 2>>, <<2, 3>>>>

----------------------------------------------------------------------------
\* C12: exactly T workers are spawned; worker t works on list t and no
\* other, strictly in list order (at any moment the tasks it has stored are
\* a prefix of its list), and the value of task (i,j) goes to C[i*N + j].
C12_WorkersInListOrder ==
    /\ Len(threads) <= T
    /\ pc \in {"join", "baseline", "verify", "exit0"} => Len(threads) = T
    /\ ValidDims =>
         \A t \in Threads :
            LET lst == At(tasks_per_thread, t)
                pos == At(threads, t).pos
            IN  /\ pos <= Len(lst)
                /\ \A p \in 1..Len(lst) :
                     LET x == lst[p][1] * N + lst[p][2] + 1
                     IN  IF p <= pos
                         THEN /\ writers[x] = <<t>>
                              /\ C[x] = CellProduct(lst[p][1], lst[p][2], K)
                         ELSE writers[x] = <<>>

\* Worker 0 has stored the first of its two tasks and not yet the second,
\* while worker 2 has finished its list.
C12_Witness ==
    /\ pc = "join"
    /\ M = 2 /\ N = 2 /\ T = 3 /\ strat = "Rows"
    /\ At(threads, 0).pos = 1
    /\ writers[1] = <<0>> /\ writers[2] = <<>>
    /\ At(threads, 2).pc = "done"
    /\ writers[4] = <<2>>

----------------------------------------------------------------------------
\* The worker is between taking and releasing the print lock.
Inside(t) == At(threads, t).pc \in {"print", "unlock"}

\* C13: with the debug flag on, at most one worker is inside the emission
\* at any time (the lock has at most one holder), and each computed cell
\* gets exactly one line, carrying the index of the worker whose list holds
\* the cell; with the flag off no worker takes the lock or emits.
C13_SerializedDiagnostics ==
    /\ \A t, u \in Threads : (Inside(t) /\ Inside(u)) => t = u
    /\ \A t \in Threads : Inside(t) <=> g_print_mtx = t
    /\ g_print_mtx \in Threads \cup {-1}
    /\ (ValidDims /\ g_debug) =>
         /\ \A t \in Threads :
              LET lst == At(tasks_per_thread, t)
                  pos == At(threads, t).pos
              IN  \A p \in 1..Len(lst) :
                     LET line == <<lst[p][1], lst[p][2], t>>
                         emitted == \/ p <= pos
                                    \/ /\ p = pos + 1
                                       /\ At(threads, t).pc \in {"unlock", "store"}
                     IN  CopiesIn(line, cout) = IF emitted THEN 1 ELSE 0
         /\ \A line \in BagToSet(cout) :
              /\ line[3] \in Threads
              /\ Owns(line[3], line[1] * N + line[2] + 1)
         /\ Joined =>
              \A cell \in Grid :
                 Cardinality({ line \in BagToSet(cout) :
                                 line[1] = cell[1] /\ line[2] = cell[2] }) = 1
    /\ ~g_debug =>
         /\ cout = EmptyBag
         /\ g_print_mtx = -1
         /\ \A t \in Threads : At(threads, t).pc \notin {"lock", "print", "unlock"}

\* Worker 1 holds the lock and has printed, worker 0 waits for the lock.
C13_Witness ==
    /\ g_debug
    /\ M = 2 /\ N = 2 /\ T = 2
    /\ Len(threads) = 2
    /\ g_print_mtx = 1
    /\ At(threads, 1).pc = "unlock"
    /\ At(threads, 0).pc = "lock"
    /\ BagCardinality(cout) = 1

----------------------------------------------------------------------------
\* A step of some worker: a thread record changes, none is added.
WorkerStep == threads' # threads /\ Len(threads') = Len(threads)

\* C14: the task lists are completely built before the first worker is
\* spawned, and from then on no step changes the task lists, A or B; a
\* worker step leaves them unchanged and changes at most one cell of C.
C14_InputsReadOnly ==
    [][ /\ (threads = <<>> /\ threads' # <<>>) =>
             /\ pc = "spawn"
             /\ tasks_per_thread = make_tasks(M, N, T, strat)
             /\ Len(tasks_per_thread) = T
             /\ ValidDims => AllTasks = Grid
        /\ TasksBuilt =>
             /\ tasks_per_thread' = tasks_per_thread
             /\ A' = A
             /\ B' = B
        /\ WorkerStep =>
             /\ tasks_per_thread' = tasks_per_thread
             /\ A' = A
             /\ B' = B
             /\ Len(C') = Len(C)
             /\ Cardinality({ x \in 1..Len(C) : C'[x] # C[x] }) <= 1
      ]_vars

\* Workers have stored into C while main waits in the join loop.
C14_Witness ==
    /\ pc = "join"
    /\ M = 2 /\ N = 2 /\ T = 2
    /\ tasks_per_thread = make_tasks(2, 2, 2, strat)
    /\ C[1] # 0 /\ C[4] = 0

----------------------------------------------------------------------------
\* The command line gives all five positionals and one of them, a
\* dimension or the thread count, is not positive.
NonPositiveInput ==
    /\ Len(argv) >= 5
    /\ \E a \in 1..4 : argv[a] <= 0

\* C15 as stated: a non-positive M, K, N or T is rejected by main before the
\* core is invoked: no task list is built and no worker is spawned.
C15_AsStated ==
    NonPositiveInput => (~TasksBuilt /\ tasks_per_thread = <<>> /\ threads = <<>>)

----------------------------------------------------------------------------
\* Fewer than five positionals, an unknown strategy name, or an unknown flag.
Malformed ==
    IF Len(argv) < 5 THEN TRUE
    ELSE \/ argv[5] \notin {"rows", "cols", "everyk"}
         \/ \E a \in 6..Len(argv) : argv[a] \notin {"--debug", "--random"}

\* C16: for a malformed invocation main returns a non-zero status and
\* attempts no computation: no matrix is allocated, no task list built, no
\* worker spawned, the baseline not run.
C16_UsageFailure ==
    Malformed =>
        /\ pc \in {"parse", "exit1"}
        /\ pc = "parse" => ENABLED ParseArgs
        /\ A = <<>> /\ B = <<>> /\ C = <<>>
        /\ tasks_per_thread = <<>>
        /\ threads = <<>>
        /\ C_ref = <<>>
        /\ cout = EmptyBag

\* An unknown flag after --debug: main has returned 1, the debug flag set.
C16_Witness ==
    /\ pc = "exit1"
    /\ argv = <<2, 2, 2, 2, "rows", "--debug", "--fast">>
    /\ g_debug
    /\ threads = <<>>

----------------------------------------------------------------------------
\* C17: compute_element and the inner loop of multiply_baseline add the
\* same terms A[i,k]*B[k,j] in the same order k = 0 .. K-1 starting from 0,
\* so they return the same value for every cell; with K = 0 both return 0;
\* multiply_baseline visits every cell exactly once, in row-major order.
C17_SameSummation ==
    (pc \in {"baseline", "verify"} /\ ValidDims /\ K >= 0) =>
        /\ \A cell \in Grid :
             LET i  == cell[1]
                 j  == cell[2]
                 ce == dot_loop(A, B, i, j, K, N, 0, Acc0)
                 bl == baseline_sum_loop(A, B, i, j, K, N, 0, Acc0)
             IN  /\ ce.terms = [k \in 1..K |->
                                  <<k - 1, A[i * K + k] * B[(k - 1) * N + j + 1]>>]
                 /\ bl.terms = ce.terms
                 /\ bl.sum = ce.sum
                 /\ compute_element(A, B, i, j, K, N) = ce.sum
                 /\ At(multiply_baseline(A, B, M, K, N), i * N + j) = ce.sum
                 /\ K = 0 => (ce.sum = 0 /\ bl.sum = 0)
        /\ baseline_loop(A, B, M, K, N, 0, 0, [C |-> Zeros(M * N), visits |-> <<>>]).visits
             = [x \in 1..(M * N) |-> <<(x - 1) \div N, (x - 1) % N>>]
        /\ pc = "verify" =>
             \A cell \in Grid :
                At(C_ref, cell[1] * N + cell[2])
                  = compute_element(A, B, cell[1], cell[2], K, N)

\* The baseline has run on the 2 x 2 x 2 example (two terms per cell).
C17_Witness ==
    /\ pc = "verify"
    /\ M = 2 /\ K = 2 /\ N = 2 /\ ~use_random
    /\ C_ref = <<7, 10, 15, 22>>
    /\ dot_loop(A, B, 1, 0, K, N, 0, Acc0).terms = <<<<0, 3>>, <<1, 12>>>>

----------------------------------------------------------------------------
\* max_abs_diff on its own: main at line 233 with any two matrices of equal
\* size (one row of n cells) within the Diff bounds, and the one step
\* that compares them.
DiffMatrices(n) == [1..n -> (-DiffMaxVal)..DiffMaxVal]

InitDiff ==
    \E n \in 0..DiffMaxLen :
        /\ argv = <<1, 1, n, 1, "rows">>
        /\ pc = "verify"
        /\ M = 1 /\ K = 1 /\ N = n /\ T = 1
        /\ strat = "Rows"
        /\ g_debug = FALSE
        /\ use_random = FALSE
        /\ A = iota_fill(1) /\ B = iota_fill(n)
        /\ C \in DiffMatrices(n)
        /\ C_ref \in DiffMatrices(n)
        /\ tasks_per_thread = make_tasks(1, n, 1, "Rows")
        /\ threads = <<[pc |-> "done", pos |-> n, sum |-> 0]>>
        /\ njoined = 1
        /\ g_print_mtx = -1
        /\ cout = EmptyBag
        /\ writers = [x \in 1..n |-> <<0>>]
        /\ diff = 0

SpecDiff == InitDiff /\ [][Verify]_vars

\* |a - b|
Distance(a, b) == IF a < b THEN b - a ELSE a - b

\* C18: for X and Y of equal size max_abs_diff returns the maximum of
\* |X[i] - Y[i]|: never negative, 0 exactly when X = Y in every cell, equal
\* to |X[i] - Y[i]| for some i when the matrices are not empty; it changes
\* neither matrix.
C18_MaxAbsDiff ==
    [][ pc = "verify" =>
          /\ C' = C
          /\ C_ref' = C_ref
          /\ diff' >= 0
          /\ diff' = 0 <=> C = C_ref
          /\ \A x \in 1..Len(C) : Distance(C[x], C_ref[x]) <= diff'
          /\ Len(C) > 0 => \E x \in 1..Len(C) : diff' = Distance(C[x], C_ref[x])
      ]_vars

\* Differences 1 and -3: the larger absolute value, 3, is reported.
C18_Witness ==
    /\ pc = "exit0"
    /\ C = <<2, -2>>
    /\ C_ref = <<1, 1>>
    /\ diff = 3

----------------------------------------------------------------------------
\* A well-formed command line with M, K, N, T >= 1.
ValidInput ==
    /\ ~Malformed
    /\ \A a \in 1..4 : argv[a] >= 1

AllJoined ==
    /\ pc = "exit0"
    /\ njoined = T
    /\ Len(threads) = T
    /\ \A t \in Threads : At(threads, t).pc = "done"

\* In every state of a valid run: the lock is held only between lock and
\* unlock, a worker is blocked only while another one holds the lock, and
\* the run is not stuck before exit 0.
C19_NoDeadlock ==
    ValidInput =>
        /\ \A t \in Threads :
             /\ g_print_mtx = t => At(threads, t).pc \in {"print", "unlock"}
             /\ At(threads, t).pc \notin {"lock", "done"} => ENABLED WorkerRun(t)
             /\ (At(threads, t).pc = "lock" /\ g_print_mtx = -1) => ENABLED WorkerRun(t)
        /\ Terminated => AllJoined
        /\ ~Terminated => ENABLED Next

\* The lock is released only by its holder, on the way to its store.
C19_ReleasedByHolder ==
    \A t \in 0..(MaxT - 1) :
        (t \in Threads /\ g_print_mtx = t /\ g_print_mtx' # t) =>
            /\ g_print_mtx' = -1
            /\ At(threads, t).pc = "unlock"
            /\ At(threads', t).pc = "store"
            /\ C' = C

\* C19: for valid inputs, under fair scheduling, every run terminates with
\* all T workers finished and joined, with or without the debug flag: the
\* print lock is released by the worker that took it before that worker
\* writes C or takes its next task, no worker waits on another one, and no
\* deadlock is reachable.
C19_Terminates ==
    /\ []C19_NoDeadlock
    /\ [][C19_ReleasedByHolder]_vars
    /\ (ValidInput ~> AllJoined)

\* A debug run with three workers has come to its end.
C19_Witness ==
    /\ ValidInput
    /\ AllJoined
    /\ g_debug
    /\ T = 3 /\ M = 2 /\ N = 2
    /\ BagCardinality(cout) = 4

----------------------------------------------------------------------------
\* Tasks completed by workers 0 .. t-1.
RECURSIVE CompletedUpTo(_)
CompletedUpTo(t) == IF t = 0 THEN 0 ELSE CompletedUpTo(t - 1) + At(threads, t - 1).pos

\* Every cell holds 0 and is unwritten, or holds its dot product and was
\* written once; as many cells are written as tasks are completed.
C20_ZeroOrFinal ==
    (ValidDims /\ pc \in {"tasks", "spawn", "join", "baseline", "verify", "exit0"}) =>
        /\ Len(C) = M * N
        /\ \A cell \in Grid :
             LET x == cell[1] * N + cell[2] + 1
             IN  \/ writers[x] = <<>> /\ C[x] = 0
                 \/ Len(writers[x]) = 1 /\ C[x] = CellProduct(cell[1], cell[2], K)
        /\ Cardinality({ x \in 1..Len(writers) : writers[x] # <<>> })
             = CompletedUpTo(Len(threads))

\* A written cell is not written again and keeps its value.
C20_WrittenIsFinal ==
    \A x \in 1..Len(writers) :
        writers[x] # <<>> => (writers'[x] = writers[x] /\ C'[x] = C[x])

\* C20: in every state of the parallel phase each cell of C holds its
\* initial 0 (not yet written) or its final value sum_k A[i,k]*B[k,j]; a
\* written cell is never written again or changed; the number of written
\* cells is the number of tasks completed by all workers.
C20_CellsWrittenOnce ==
    /\ []C20_ZeroOrFinal
    /\ [][C20_WrittenIsFinal]_vars

\* Mid-run: two of four cells written, two still 0.
C20_Witness ==
    /\ pc = "join"
    /\ M = 2 /\ K = 2 /\ N = 2 /\ T = 2 /\ ~use_random /\ strat = "EveryK"
    /\ C = <<7, 10, 0, 0>>
    /\ CompletedUpTo(2) = 2

====
